---- MODULE Spec2Model ----
(***************************************************************************)
(* ecr-image-checker: the run of internal/checker (Run): load the defaults *)
(* file and the per-image config files, merge, validate, add the           *)
(* calculated fields, check each target's tag in ECR page by page, and     *)
(* print the manifest of the targets whose tag is missing.                 *)
(*                                                                         *)
(* Go values are modelled as follows.                                      *)
(*   *string, nil-able slice, nil-able map : a tuple of length <= 1;       *)
(*       <<>> is nil and <<v>> is a non-nil pointer / slice / map v.       *)
(*   string                                : a TLA+ string (Len, \o);      *)
(*       build-arg values are tuples of one-character strings, so that     *)
(*       strings.TrimSpace can be computed.                                *)
(*   map[string]T                          : a function on its key set.    *)
(***************************************************************************)
EXTENDS Integers, Sequences, FiniteSets, TLC

VARIABLES
    pc,                 \* position of Run: the stage about to execute
    fs,                 \* the files on disk: the defaults file and the image directory
    defaultConfigData,  \* Run's local: the parsed defaults file
    dirIdx,             \* parseChildConfig's loop position in the directory listing
    addr,               \* the heap: (key, idx) of c.repos -> the Target object that
                        \* c.repos[key].Targets[idx] points to
    repos,              \* c.repos: source path -> repoConfig
    err,                \* the error Run returns (NoErr while none)
    output,             \* what Run has written to standard output (a string)
    runMissingTags,     \* Run's local missingTags: the slice filterMissingTags returned
    remote,             \* the registries: account id -> pages of the repository's listing
    visited,            \* checkECRImageTags: keys of c.repos the outer loop has finished
    cur,                \* checkECRImageTags: the (key, idx) being checked, or Nil
    nextToken,          \* checkECRImageTags: the local nextToken
    ecrClient,          \* c.ecrClient: the client setupECRClient built last, or Nil
    calls,              \* history: the ListImages calls made and what each returned
    recorded,           \* history: the (key, idx) whose RemoteTagMissing the checker set
    firstRun            \* history: the flags a first checkECRImageTags left, once it is
                        \* called again (Nil until then)

\* the inputs of a run, and the state of checkECRImageTags
inputVars == <<fs, remote>>
checkVars == <<visited, cur, nextToken, ecrClient, calls, recorded>>
outVars == <<output, runMissingTags>>

\* what no step of Run changes
fixedVars == <<inputVars, firstRun>>

vars == <<pc, defaultConfigData, dirIdx, addr, repos, err, outVars, fixedVars, checkVars>>

-----------------------------------------------------------------------------
(* Pointers and strings *)

Nil == <<>>
Ptr(v) == <<v>>
Deref(p) == p[1]

\* len() of a nil-able slice or map held as a tuple of length <= 1
SliceLen(s) == IF s = Nil THEN 0 ELSE Len(Deref(s))
MapLen(m) == IF m = Nil THEN 0 ELSE Cardinality(DOMAIN Deref(m))

readStrPointer(ptr) == IF ptr # Nil THEN Deref(ptr) ELSE ""

strPtrEmpty(s) == IF s = Nil \/ Deref(s) = "" THEN TRUE ELSE FALSE

\* unicode.IsSpace on the characters the inputs use
IsSpace(c) == c \in {" ", "\t", "\n", "\r"}

RECURSIVE TrimLeft(_)
TrimLeft(s) ==
    IF s = <<>> THEN <<>>
    ELSE IF IsSpace(Head(s)) THEN TrimLeft(Tail(s)) ELSE s

RECURSIVE TrimRight(_)
TrimRight(s) ==
    IF s = <<>> THEN <<>>
    ELSE IF IsSpace(s[Len(s)]) THEN TrimRight(SubSeq(s, 1, Len(s) - 1)) ELSE s

\* strings.TrimSpace on a string held as a tuple of characters
TrimSpace(s) == TrimRight(TrimLeft(s))

\* the Go string of a tuple of characters
RECURSIVE Str(_)
Str(s) == IF s = <<>> THEN "" ELSE Head(s) \o Str(Tail(s))

-----------------------------------------------------------------------------
(* Records *)

\* type Target: a Target as yaml.Unmarshal leaves it. The calculated fields carry
\* json tags only, so yaml.v3 decodes them under their lower-cased field names;
\* an input file that does not name them leaves the zero values.
NewTarget(acct, region, role, missing) ==
    [AwsAccountId |-> acct, AwsRegion |-> region, AwsRoleName |-> role,
     AWSRoleARN |-> "", FullImageRef |-> "", RemoteTagMissing |-> missing,
     WorkingDirectory |-> "", TargetPlatformStr |-> "", BuildArgsStr |-> ""]

\* type repoConfig
NewRepoConfig(dAcct, dRegion, dRole, name, tag, platforms, buildArgs, targets) ==
    [DefaultAwsAccountId |-> dAcct, DefaultRegion |-> dRegion,
     DefaultAwsRoleName |-> dRole, RepoName |-> name, RepoTag |-> tag,
     TargetPlatforms |-> platforms, BuildArgs |-> buildArgs, Targets |-> targets]

\* the zero repoConfig{}
EmptyRepoConfig == NewRepoConfig(Nil, Nil, Nil, Nil, Nil, Nil, Nil, Nil)

NoErr == [msg |-> "", key |-> "", idx |-> -1, arg |-> ""]
Error(msg, key, idx, arg) == [msg |-> msg, key |-> key, idx |-> idx, arg |-> arg]

-----------------------------------------------------------------------------
(* mergeRepoConfig *)

\* MergeTarget with the nil test on the account id left out: the default
\* overwrites an account id the target declares
MergeTargetOverwrite(defaultConf, target) ==
    [target EXCEPT
        !.AwsAccountId =
            IF defaultConf.DefaultAwsAccountId # Nil
               /\ Len(Deref(defaultConf.DefaultAwsAccountId)) > 0
            THEN defaultConf.DefaultAwsAccountId ELSE @,
        !.AwsRegion =
            IF @ = Nil /\ defaultConf.DefaultRegion # Nil
               /\ Len(Deref(defaultConf.DefaultRegion)) > 0
            THEN defaultConf.DefaultRegion ELSE @,
        !.AwsRoleName =
            IF @ = Nil /\ defaultConf.DefaultAwsRoleName # Nil
               /\ Len(Deref(defaultConf.DefaultAwsRoleName)) > 0
            THEN defaultConf.DefaultAwsRoleName ELSE @]

\* MergeTarget with the region's nil test made on the account id
MergeTargetRegionFromAccount(defaultConf, target) ==
    [target EXCEPT
        !.AwsAccountId =
            IF @ = Nil /\ defaultConf.DefaultAwsAccountId # Nil
               /\ Len(Deref(defaultConf.DefaultAwsAccountId)) > 0
            THEN defaultConf.DefaultAwsAccountId ELSE @,
        !.AwsRegion =
            IF target.AwsAccountId = Nil /\ defaultConf.DefaultRegion # Nil
               /\ Len(Deref(defaultConf.DefaultRegion)) > 0
            THEN defaultConf.DefaultRegion ELSE @,
        !.AwsRoleName =
            IF @ = Nil /\ defaultConf.DefaultAwsRoleName # Nil
               /\ Len(Deref(defaultConf.DefaultAwsRoleName)) > 0
            THEN defaultConf.DefaultAwsRoleName ELSE @]

\* MergeTarget without the tests for an empty default: a nil field takes any
\* default that is non-nil
MergeTargetAdoptEmpty(defaultConf, target) ==
    [target EXCEPT
        !.AwsAccountId =
            IF @ = Nil /\ defaultConf.DefaultAwsAccountId # Nil
            THEN defaultConf.DefaultAwsAccountId ELSE @,
        !.AwsRegion =
            IF @ = Nil /\ defaultConf.DefaultRegion # Nil
            THEN defaultConf.DefaultRegion ELSE @,
        !.AwsRoleName =
            IF @ = Nil /\ defaultConf.DefaultAwsRoleName # Nil
            THEN defaultConf.DefaultAwsRoleName ELSE @]

\* the loop body of mergeRepoConfig: a field of a declared target that is nil
\* takes the default when the default is non-nil and non-empty
MergeTarget(defaultConf, target) ==
    [target EXCEPT
        !.AwsAccountId =
            IF @ = Nil /\ defaultConf.DefaultAwsAccountId # Nil
               /\ Len(Deref(defaultConf.DefaultAwsAccountId)) > 0
            THEN defaultConf.DefaultAwsAccountId ELSE @,
        !.AwsRegion =
            IF @ = Nil /\ defaultConf.DefaultRegion # Nil
               /\ Len(Deref(defaultConf.DefaultRegion)) > 0
            THEN defaultConf.DefaultRegion ELSE @,
        !.AwsRoleName =
            IF @ = Nil /\ defaultConf.DefaultAwsRoleName # Nil
               /\ Len(Deref(defaultConf.DefaultAwsRoleName)) > 0
            THEN defaultConf.DefaultAwsRoleName ELSE @]

\* SynthesizeTargets without the default role name
SynthesizeTargetsNoRole(defaultConf, targets) ==
    IF defaultConf.DefaultAwsAccountId # Nil /\ defaultConf.DefaultRegion # Nil
    THEN Ptr(<<NewTarget(defaultConf.DefaultAwsAccountId,
                         defaultConf.DefaultRegion, Nil, FALSE)>>)
    ELSE targets

\* the "no targets key" branch: the target list built from the defaults, or the
\* child's own list when the defaults do not have both account id and region
SynthesizeTargets(defaultConf, targets) ==
    IF defaultConf.DefaultAwsAccountId # Nil /\ defaultConf.DefaultRegion # Nil
    THEN Ptr(<<NewTarget(defaultConf.DefaultAwsAccountId,
                         defaultConf.DefaultRegion,
                         IF defaultConf.DefaultAwsRoleName # Nil
                         THEN defaultConf.DefaultAwsRoleName ELSE Nil,
                         FALSE)>>)
    ELSE targets

\* mergeRepoConfig that adds the target built from the defaults to a list of
\* fewer than two targets
mergeRepoConfigAppendDefault(defaultConf, childRepoConf) ==
    LET merged ==
            IF childRepoConf.Targets = Nil THEN <<>>
            ELSE [i \in 1..Len(Deref(childRepoConf.Targets)) |->
                    MergeTarget(defaultConf, Deref(childRepoConf.Targets)[i])]
        built == SynthesizeTargets(defaultConf, Nil)
    IN  [childRepoConf EXCEPT
            !.Targets = IF Len(merged) <= 1 /\ built # Nil
                        THEN Ptr(merged \o Deref(built))
                        ELSE IF Len(merged) = 0 THEN childRepoConf.Targets
                        ELSE Ptr(merged)]

\* mergeRepoConfig returns the child record: its targets merged, every other
\* field (the child's own default_* keys included) as the child file gave it
mergeRepoConfig(defaultConf, childRepoConf) ==
    LET merged ==
            IF childRepoConf.Targets = Nil THEN Nil
            ELSE Ptr([i \in 1..Len(Deref(childRepoConf.Targets)) |->
                        MergeTarget(defaultConf, Deref(childRepoConf.Targets)[i])])
    IN  [childRepoConf EXCEPT
            !.Targets = IF SliceLen(merged) = 0
                        THEN SynthesizeTargets(defaultConf, merged)
                        ELSE merged]

-----------------------------------------------------------------------------
(* validate *)

\* validatePlatforms without the loop over the entries
validatePlatformsNoEntryCheck(key, repo) ==
    IF repo.TargetPlatforms = Nil \/ SliceLen(repo.TargetPlatforms) = 0
    THEN {Error("target_platforms not set", key, -1, "")}
    ELSE {}

\* the target_platforms checks of one record: the set of errors they can
\* return (empty when the checks pass)
validatePlatforms(key, repo) ==
    IF repo.TargetPlatforms = Nil \/ SliceLen(repo.TargetPlatforms) = 0
    THEN {Error("target_platforms not set", key, -1, "")}
    ELSE LET tp == Deref(repo.TargetPlatforms)
             bad == {i \in 1..Len(tp) : tp[i] = ""}
         IN  IF bad = {} THEN {}
             ELSE {Error("target_platforms cannot contain empty values", key,
                         (CHOOSE i \in bad : \A j \in bad : i <= j) - 1, "")}

\* validateBuildArgs comparing the value itself, untrimmed, with ""
validateBuildArgsNoTrim(key, repo) ==
    IF repo.BuildArgs # Nil /\ MapLen(repo.BuildArgs) = 0
    THEN {Error("build_args must have at one key/pair when defined", key, -1, "")}
    ELSE IF repo.BuildArgs = Nil THEN {}
    ELSE LET m == Deref(repo.BuildArgs)
         IN  {Error("build_args must have no empty values", key, -1, k) :
                 k \in {k \in DOMAIN m : m[k] = <<>>}}

\* the build_args checks of one record; the range over the map visits the keys
\* in any order, so any key with a blank value can be the one reported
validateBuildArgs(key, repo) ==
    IF repo.BuildArgs # Nil /\ MapLen(repo.BuildArgs) = 0
    THEN {Error("build_args must have at one key/pair when defined", key, -1, "")}
    ELSE IF repo.BuildArgs = Nil THEN {}
    ELSE LET m == Deref(repo.BuildArgs)
         IN  {Error("build_args must have no empty values", key, -1, k) :
                 k \in {k \in DOMAIN m : TrimSpace(m[k]) = <<>>}}

\* validateTarget testing the pointers for nil only: an empty string counts
\* as a value, for the target's fields and for the defaults
validateTargetNilOnly(key, repo, idx) ==
    LET target == Deref(repo.Targets)[idx]
    IN  IF target.AwsAccountId = Nil /\ repo.DefaultAwsAccountId = Nil
        THEN {Error("aws_account_id not set and there is no default set", key, idx - 1, "")}
        ELSE IF target.AwsRegion = Nil /\ repo.DefaultRegion = Nil
        THEN {Error("aws_region not set and there is no default set", key, idx - 1, "")}
        ELSE {}

\* the check of target idx (from 1) against the record's own default_* fields
validateTarget(key, repo, idx) ==
    LET target == Deref(repo.Targets)[idx]
        defaultAwsAccountIdSet ==
            repo.DefaultAwsAccountId # Nil /\ Len(Deref(repo.DefaultAwsAccountId)) > 0
        defaultAwsRegionSet ==
            repo.DefaultRegion # Nil /\ Len(Deref(repo.DefaultRegion)) > 0
    IN  IF (target.AwsAccountId = Nil \/ Len(Deref(target.AwsAccountId)) = 0)
           /\ ~defaultAwsAccountIdSet
        THEN {Error("aws_account_id not set and there is no default set", key, idx - 1, "")}
        ELSE IF (target.AwsRegion = Nil \/ Len(Deref(target.AwsRegion)) = 0)
                /\ ~defaultAwsRegionSet
        THEN {Error("aws_region not set and there is no default set", key, idx - 1, "")}
        ELSE {}

\* the loop over the targets: the error of the first target that fails
validateTargets(key, repo) ==
    LET bad == {i \in 1..SliceLen(repo.Targets) : validateTarget(key, repo, i) # {}}
    IN  IF bad = {} THEN {}
        ELSE validateTarget(key, repo, CHOOSE i \in bad : \A j \in bad : i <= j)

\* validateRepo that checks target_platforms and build_args before the
\* repository name, the tag and the target list
validateRepoPlatformsFirst(key, repo) ==
    IF validatePlatforms(key, repo) # {} THEN validatePlatforms(key, repo)
    ELSE IF validateBuildArgs(key, repo) # {} THEN validateBuildArgs(key, repo)
    ELSE IF strPtrEmpty(repo.RepoName) THEN {Error("repo_name not set", key, -1, "")}
    ELSE IF strPtrEmpty(repo.RepoTag) THEN {Error("repo_tag not set", key, -1, "")}
    ELSE IF repo.Targets = Nil \/ SliceLen(repo.Targets) = 0
    THEN {Error("targets not set either at the child level or via defaults", key, -1, "")}
    ELSE validateTargets(key, repo)

\* the body of validate's loop for one record: the errors it can return
validateRepo(key, repo) ==
    IF strPtrEmpty(repo.RepoName) THEN {Error("repo_name not set", key, -1, "")}
    ELSE IF strPtrEmpty(repo.RepoTag) THEN {Error("repo_tag not set", key, -1, "")}
    ELSE IF repo.Targets = Nil \/ SliceLen(repo.Targets) = 0
    THEN {Error("targets not set either at the child level or via defaults", key, -1, "")}
    ELSE IF validatePlatforms(key, repo) # {} THEN validatePlatforms(key, repo)
    ELSE IF validateBuildArgs(key, repo) # {} THEN validateBuildArgs(key, repo)
    ELSE validateTargets(key, repo)

\* validate that accepts every record collection
validateAcceptAll(rs) == {NoErr}

\* validate: the range over c.repos visits the records in any order and the
\* first failure returns, so any failing record can be the one reported
validate(rs) ==
    LET errs == UNION {validateRepo(k, rs[k]) : k \in DOMAIN rs}
    IN  IF errs = {} THEN {NoErr} ELSE errs

-----------------------------------------------------------------------------
(* Files, paths and the registry *)

defaultConfigFile == "config-defaults.yml"
childConfigFile == "config.yml"
appName == "ecr-image-checker"

\* Run's argument
imageDirectory == "images"

\* the names a directory entry can have
DirNames == {"image-1", "image-2", ".git", "readme.md"}

\* a file on disk: what os.ReadFile and yaml.Unmarshal make of it
File(status, data) == [status |-> status, data |-> data]
NoFile == File("notexist", EmptyRepoConfig)

\* an entry of the image directory, as os.ReadDir lists it
DirEntry(name, isDir, file) == [name |-> name, isDir |-> isDir, file |-> file]

\* strings.HasPrefix(name, ".") on the names in use
HasDotPrefix(name) == name \in {".git"}

\* path.Join(imageDirectory, name, childConfigFile)
sourceConfigFilePath(name) == imageDirectory \o "/" \o name \o "/" \o childConfigFile

\* path.Dir(key) for a key parseChildConfig built
PathDir(key) ==
    CHOOSE d \in {imageDirectory \o "/" \o n : n \in DirNames} :
        d \o "/" \o childConfigFile = key

\* the continuation token that names page k of a listing
Tokens == <<"tok-1", "tok-2", "tok-3", "tok-4", "tok-5">>
Tok(k) == Tokens[k]

\* one page of a listing: the ImageTag pointers of its ImageIds and its NextToken
Page(tags, next) == [tags |-> tags, next |-> next]

\* the ARN of a role of an account
RoleARN(accountId, roleName) == "arn:aws:iam::" \o accountId \o ":role/" \o roleName

\* parseYAMLFile
parseYAMLFile(file) ==
    IF file.status = "ok" THEN [data |-> file.data, err |-> NoErr]
    ELSE IF file.status = "malformed"
    THEN [data |-> EmptyRepoConfig, err |-> Error("parsing YAML file", "", -1, "")]
    ELSE [data |-> EmptyRepoConfig,
          err |-> Error("opening YAML file", "", -1, file.status)]

\* IsNotExist that takes every failure to read a file for its non-existence
IsNotExistAnyOpenError(e) == e.msg = "opening YAML file"

\* errors.Is(err, os.ErrNotExist)
IsNotExist(e) == e.msg = "opening YAML file" /\ e.arg = "notexist"

\* every order in which a range over a map with key set S can visit it
Orderings(S) ==
    {s \in [1..Cardinality(S) -> S] : \A x \in S : \E i \in 1..Cardinality(S) : s[i] = x}

-----------------------------------------------------------------------------
(* Run, up to validate *)

\* Run: newConfig and the parse of the defaults file
Start ==
    /\ pc = "start"
    /\ \E awsOK \in BOOLEAN :
        LET parsed == parseYAMLFile(fs.defaults)
        IN  IF ~awsOK
            THEN /\ pc' = "error"
                 /\ err' = Error("creating new config", "", -1, "")
                 /\ UNCHANGED defaultConfigData
            ELSE IF parsed.err # NoErr
            THEN /\ pc' = "error"
                 /\ err' = [parsed.err EXCEPT !.key = defaultConfigFile]
                 /\ UNCHANGED defaultConfigData
            ELSE IF ~fs.listable
            THEN /\ pc' = "error"
                 /\ err' = Error("reading directories", imageDirectory, -1, "")
                 /\ defaultConfigData' = parsed.data
            ELSE /\ pc' = "parse"
                 /\ err' = NoErr
                 /\ defaultConfigData' = parsed.data
    /\ UNCHANGED <<dirIdx, addr, repos, outVars, fixedVars, checkVars>>

\* AllocTargets that takes the target built from the defaults from one object
\* kept for all records
AllocTargetsSharedDefault(heap, path, declared, n) ==
    [sl \in DOMAIN heap \cup {<<path, i>> : i \in 1..n} |->
        IF sl \in DOMAIN heap THEN heap[sl]
        ELSE IF declared = 0 THEN <<defaultConfigFile, 1>> ELSE sl]

\* the Target objects of the record stored under path: the declared targets
\* are the objects yaml.Unmarshal allocated for this file, the target built
\* from the defaults is the object of the slice literal of this call; either
\* way objects allocated while this file is dealt with, named by (path, i)
AllocTargets(heap, path, declared, n) ==
    [sl \in DOMAIN heap \cup {<<path, i>> : i \in 1..n} |->
        IF sl \in DOMAIN heap THEN heap[sl] ELSE sl]

\* parseChildConfig: one iteration of the loop over the directory entries
ParseChildDir ==
    /\ pc = "parse"
    /\ dirIdx <= Len(fs.dirs)
    /\ LET baseDir == fs.dirs[dirIdx]
           path == sourceConfigFilePath(baseDir.name)
           parsed == parseYAMLFile(baseDir.file)
       IN  IF ~baseDir.isDir \/ HasDotPrefix(baseDir.name)
           THEN /\ dirIdx' = dirIdx + 1
                /\ UNCHANGED <<pc, err, repos, addr>>
           ELSE IF parsed.err # NoErr /\ IsNotExist(parsed.err)
           THEN /\ dirIdx' = dirIdx + 1
                /\ UNCHANGED <<pc, err, repos, addr>>
           ELSE IF parsed.err # NoErr
           THEN /\ pc' = "error"
                /\ err' = [parsed.err EXCEPT !.key = path]
                /\ UNCHANGED <<dirIdx, repos, addr>>
           ELSE /\ repos' = [k \in DOMAIN repos \cup {path} |->
                                IF k = path
                                THEN mergeRepoConfig(defaultConfigData, parsed.data)
                                ELSE repos[k]]
                /\ addr' = AllocTargets(addr, path, SliceLen(parsed.data.Targets),
                                        SliceLen(mergeRepoConfig(defaultConfigData,
                                                                 parsed.data).Targets))
                /\ dirIdx' = dirIdx + 1
                /\ UNCHANGED <<pc, err>>
    /\ UNCHANGED <<defaultConfigData, outVars, fixedVars, checkVars>>

\* parseChildConfig returns nil after the last entry
ParseChildDone ==
    /\ pc = "parse"
    /\ dirIdx > Len(fs.dirs)
    /\ pc' = "validate"
    /\ UNCHANGED <<defaultConfigData, dirIdx, addr, repos, err, outVars, fixedVars, checkVars>>

\* Run: c.validate()
Validate ==
    /\ pc = "validate"
    /\ \E e \in validate(repos) :
        /\ err' = e
        /\ pc' = IF e = NoErr THEN "decorate" ELSE "error"
    /\ UNCHANGED <<defaultConfigData, dirIdx, addr, repos, outVars, fixedVars, checkVars>>

-----------------------------------------------------------------------------
(* addCalculatedFields *)

\* strings.Join(elems, sep)
RECURSIVE Join(_, _)
Join(elems, sep) ==
    IF elems = <<>> THEN ""
    ELSE IF Len(elems) = 1 THEN elems[1]
    ELSE elems[1] \o sep \o Join(Tail(elems), sep)

\* the loop over repo.BuildArgs, visiting its keys in the order given
RECURSIVE AppendBuildArgs(_, _, _, _)
AppendBuildArgs(str, m, order, count) ==
    IF order = <<>> THEN str
    ELSE AppendBuildArgs(
            (IF count > 0 THEN str \o " " ELSE str)
                \o "--build-arg " \o Head(order) \o "=" \o Str(m[Head(order)]),
            m, Tail(order), count + 1)

\* the role ARN of a target: computed only when the role name is non-empty
calcRoleARN(target) ==
    IF target.AwsRoleName # Nil /\ Len(Deref(target.AwsRoleName)) > 0
    THEN RoleARN(Deref(target.AwsAccountId), Deref(target.AwsRoleName))
    ELSE target.AWSRoleARN

calcFullImageRef(repo, target) ==
    Deref(target.AwsAccountId) \o ".dkr.ecr." \o Deref(target.AwsRegion)
        \o ".amazonaws.com/" \o Deref(repo.RepoName) \o ":" \o Deref(repo.RepoTag)

\* the body of the inner loop for one target; order is the order in which the
\* range over repo.BuildArgs visits the keys
calcTarget(key, repo, target, order) ==
    [target EXCEPT
        !.AWSRoleARN = calcRoleARN(target),
        !.FullImageRef = calcFullImageRef(repo, target),
        !.WorkingDirectory = PathDir(key),
        !.TargetPlatformStr =
            IF SliceLen(repo.TargetPlatforms) > 0
            THEN Join(Deref(repo.TargetPlatforms), ",") ELSE @,
        !.BuildArgsStr =
            IF MapLen(repo.BuildArgs) > 0
            THEN AppendBuildArgs(@, Deref(repo.BuildArgs), order, 0)
            ELSE @]

\* a target whose account id or region pointer addCalculatedFields dereferences is nil
NilDeref(target) == target.AwsAccountId = Nil \/ target.AwsRegion = Nil

\* the (key, idx) of every target of c.repos
AllSlots(rs) == UNION {{<<k, i>> : i \in 1..SliceLen(rs[k].Targets)} : k \in DOMAIN rs}

\* the keys of repo.BuildArgs
BuildArgNames(repo) == IF repo.BuildArgs = Nil THEN {} ELSE DOMAIN Deref(repo.BuildArgs)

\* for every target, an order in which the range over its record's BuildArgs
\* can visit the keys
ArgOrders(rs) ==
    {o \in [AllSlots(rs) -> UNION {Orderings(BuildArgNames(rs[k])) : k \in DOMAIN rs}] :
        \A sl \in AllSlots(rs) : o[sl] \in Orderings(BuildArgNames(rs[sl[1]]))}

\* Run: c.addCalculatedFields(); a nil account id or region panics
AddCalculatedFields ==
    /\ pc = "decorate"
    /\ IF \E sl \in AllSlots(repos) : NilDeref(Deref(repos[sl[1]].Targets)[sl[2]])
       THEN /\ pc' = "panic"
            /\ UNCHANGED repos
       ELSE /\ pc' = "check"
            /\ \E ord \in ArgOrders(repos) :
                repos' = [k \in DOMAIN repos |->
                            [repos[k] EXCEPT !.Targets =
                                Ptr([i \in 1..SliceLen(repos[k].Targets) |->
                                        calcTarget(k, repos[k],
                                                   Deref(repos[k].Targets)[i],
                                                   ord[<<k, i>>])])]]
    /\ UNCHANGED <<defaultConfigData, dirIdx, addr, err, outVars, fixedVars, checkVars>>

-----------------------------------------------------------------------------
(* checkECRImageTags and setupECRClient *)

\* the most ListImages calls followed for one target
MaxCallsPerTarget == 4

\* the role names in use
RoleNames == {"default-role", "my-iam-role"}

\* the account whose credentials the run starts with
CallerAccount == "999999999999"

\* the client setupECRClient builds: its region, and the role its credentials
\* assume ("" for the default credential chain)
NewClient(target) ==
    [region |-> Deref(target.AwsRegion),
     role |-> IF target.AwsRoleName # Nil /\ Deref(target.AwsRoleName) # ""
              THEN target.AWSRoleARN ELSE ""]

\* the ListImagesInput of one iteration of the page loop
ListImagesInput(repo, target, token) ==
    [RepositoryName |-> repo.RepoName,
     NextToken |-> IF token # "" THEN Ptr(token) ELSE Nil,
     RegistryId |-> IF target.AWSRoleARN = "" THEN target.AwsAccountId ELSE Nil]

\* the account of the registry a call reaches: the one RegistryId names, else
\* the account of the role the client assumed, else the caller's own
RegistryAccount(client, input) ==
    IF input.RegistryId # Nil THEN Deref(input.RegistryId)
    ELSE LET accts == {k[1] : k \in DOMAIN remote}
             owners == {a \in accts :
                          \E n \in RoleNames : RoleARN(a, n) = client.role}
         IN  IF owners # {} THEN CHOOSE a \in owners : TRUE ELSE CallerAccount

\* the repository a call lists: (account, region, repository name)
RepositoryOf(client, input) ==
    <<RegistryAccount(client, input), client.region, Deref(input.RepositoryName)>>

\* the index of the page a call asks for: the first without a token
PageIndex(input) ==
    IF input.NextToken = Nil THEN 1
    ELSE CHOOSE k \in 1..Len(Tokens) : Tok(k) = Deref(input.NextToken)

\* the service can answer the call: the repository exists and has the page
CanAnswer(client, input) ==
    /\ RepositoryOf(client, input) \in DOMAIN remote
    /\ PageIndex(input) <= Len(remote[RepositoryOf(client, input)])

\* ecr.ListImages: the page the service returns
ListImages(client, input) == remote[RepositoryOf(client, input)][PageIndex(input)]

\* the scan of a page: some ImageId has a non-nil tag equal to the repo tag
PageHasTag(page, repo) ==
    \E t \in page.tags : t # Nil /\ Deref(t) = Deref(repo.RepoTag)

\* NoMorePages that ignores the continuation token: one page only
NoMorePagesAlways(page) == TRUE

\* the loop stops after this page: nothing more to list
NoMorePages(page) == page.next = Nil

\* the calls made so far for the target at (key, idx)
CallsFor(key, idx) == {n \in 1..Len(calls) : calls[n].key = key /\ calls[n].idx = idx}

\* the outer loop picks the next record in any order, or returns nil
CheckNext ==
    /\ pc = "check"
    /\ IF DOMAIN repos \ visited = {}
       THEN /\ pc' = "output"
            /\ UNCHANGED cur
       ELSE /\ pc' = "setup"
            /\ \E key \in DOMAIN repos \ visited : cur' = Ptr([key |-> key, idx |-> 1])
    /\ UNCHANGED <<defaultConfigData, dirIdx, addr, repos, err, outVars, fixedVars,
                   visited, nextToken, ecrClient, calls, recorded>>

\* setupECRClient for the current target, and the locals of the page loop
SetupECRClient ==
    /\ pc = "setup"
    /\ LET repo == repos[Deref(cur).key]
           target == Deref(repo.Targets)[Deref(cur).idx]
       IN  \E ok \in BOOLEAN :
            IF ok
            THEN /\ ecrClient' = Ptr(NewClient(target))
                 /\ nextToken' = ""
                 /\ pc' = "list"
                 /\ UNCHANGED err
            ELSE /\ pc' = "error"
                 /\ err' = Error("setting up ECR client", Deref(cur).key, Deref(cur).idx - 1, "")
                 /\ UNCHANGED <<ecrClient, nextToken>>
    /\ UNCHANGED <<defaultConfigData, dirIdx, addr, repos, outVars, fixedVars,
                   visited, cur, calls, recorded>>

\* where the loops go when the current target is finished
AfterTarget(key, idx) ==
    IF idx < SliceLen(repos[key].Targets)
    THEN [pc |-> "setup", cur |-> Ptr([key |-> key, idx |-> idx + 1]), visited |-> visited]
    ELSE [pc |-> "check", cur |-> Nil, visited |-> visited \cup {key}]

\* OnListError that drops the error and goes on with the next target
OnListErrorSkipTarget(key, idx) ==
    [pc |-> AfterTarget(key, idx).pc, cur |-> AfterTarget(key, idx).cur,
     visited |-> AfterTarget(key, idx).visited, err |-> NoErr]

\* what a failed ListImages call does to the run: return the error
OnListError(key, idx) ==
    [pc |-> "error", cur |-> cur, visited |-> visited,
     err |-> Error("listing Docker tags", key, idx - 1, Deref(repos[key].RepoName))]

\* RecordMissing that inverts the flag the target has
RecordMissingToggle(rs, key, idx) ==
    [rs EXCEPT ![key].Targets[1][idx].RemoteTagMissing = ~@]

\* RecordMissing that stores a target without its role name
RecordMissingDropRole(rs, key, idx) ==
    [rs EXCEPT ![key].Targets[1][idx].RemoteTagMissing = TRUE,
               ![key].Targets[1][idx].AwsRoleName = Nil]

\* the write after the page loop, target.RemoteTagMissing = true, through the
\* pointer: every entry of c.repos that points to the same object shows it
RecordMissing(rs, key, idx) ==
    [k \in DOMAIN rs |->
        [rs[k] EXCEPT !.Targets =
            IF @ = Nil THEN Nil
            ELSE Ptr([i \in 1..Len(Deref(@)) |->
                        IF addr[<<k, i>>] = addr[<<key, idx>>]
                        THEN [Deref(@)[i] EXCEPT !.RemoteTagMissing = TRUE]
                        ELSE Deref(@)[i]])]]

\* one iteration of the page loop: a ListImages call and what follows it
ListImagesCall ==
    /\ pc = "list"
    /\ LET key == Deref(cur).key
           idx == Deref(cur).idx
           repo == repos[key]
           target == Deref(repo.Targets)[idx]
           client == Deref(ecrClient)
           input == ListImagesInput(repo, target, nextToken)
       IN  /\ Cardinality(CallsFor(key, idx)) < MaxCallsPerTarget
           /\ \E ok \in (IF CanAnswer(client, input) THEN BOOLEAN ELSE {FALSE}) :
                IF ~ok
                THEN /\ calls' = Append(calls, [key |-> key, idx |-> idx, client |-> client,
                                                input |-> input, ok |-> FALSE,
                                                page |-> Page({}, Nil)])
                     /\ pc' = OnListError(key, idx).pc
                     /\ cur' = OnListError(key, idx).cur
                     /\ visited' = OnListError(key, idx).visited
                     /\ err' = OnListError(key, idx).err
                     /\ UNCHANGED <<repos, nextToken, recorded>>
                ELSE LET ecrImages == ListImages(client, input)
                         remoteTagMissing == ~PageHasTag(ecrImages, repo)
                     IN  /\ calls' = Append(calls, [key |-> key, idx |-> idx,
                                                    client |-> client, input |-> input,
                                                    ok |-> TRUE, page |-> ecrImages])
                         /\ UNCHANGED err
                         /\ IF remoteTagMissing /\ ~NoMorePages(ecrImages)
                            THEN /\ nextToken' = Deref(ecrImages.next)
                                 /\ UNCHANGED <<pc, cur, visited, repos, recorded>>
                            ELSE /\ pc' = AfterTarget(key, idx).pc
                                 /\ cur' = AfterTarget(key, idx).cur
                                 /\ visited' = AfterTarget(key, idx).visited
                                 /\ UNCHANGED nextToken
                                 /\ IF remoteTagMissing
                                    THEN /\ repos' = RecordMissing(repos, key, idx)
                                         /\ recorded' = recorded \cup {<<key, idx>>}
                                    ELSE UNCHANGED <<repos, recorded>>
    /\ UNCHANGED <<defaultConfigData, dirIdx, addr, outVars, fixedVars, ecrClient>>

-----------------------------------------------------------------------------
(* filterMissingTags and outputGitHubJSON *)

\* MissingOf that leaves the loop over a record's targets at the first
\* flagged target
MissingOfFirstOnly(targets) ==
    LET flagged == {i \in 1..Len(targets) : targets[i].RemoteTagMissing}
    IN  IF flagged = {} THEN <<>>
        ELSE <<targets[CHOOSE i \in flagged : \A j \in flagged : i <= j]>>

\* the targets of one record flagged as missing, in order
RECURSIVE MissingOf(_)
MissingOf(targets) ==
    IF targets = <<>> THEN <<>>
    ELSE (IF Head(targets).RemoteTagMissing THEN <<Head(targets)>> ELSE <<>>)
            \o MissingOf(Tail(targets))

\* filterMissingTags, the range over the map visiting the keys in this order
RECURSIVE filterMissingTags(_, _)
filterMissingTags(original, order) ==
    IF order = <<>> THEN <<>>
    ELSE MissingOf(IF original[Head(order)].Targets = Nil THEN <<>>
                   ELSE Deref(original[Head(order)].Targets))
            \o filterMissingTags(original, Tail(order))

\* json.Marshal of a string, a *string and a bool (the inputs need no escapes)
JSONString(str) == "\"" \o str \o "\""
JSONStrPtr(ptr) == IF ptr = Nil THEN "null" ELSE JSONString(Deref(ptr))
JSONBool(b) == IF b THEN "true" ELSE "false"

\* json.Marshal of a Target: its fields in declaration order under their json tags
JSONTarget(t) ==
    "{" \o "\"aws_account_id\":" \o JSONStrPtr(t.AwsAccountId)
        \o ",\"aws_region\":" \o JSONStrPtr(t.AwsRegion)
        \o ",\"aws_role_name\":" \o JSONStrPtr(t.AwsRoleName)
        \o ",\"aws_role_arn\":" \o JSONString(t.AWSRoleARN)
        \o ",\"full_image_ref\":" \o JSONString(t.FullImageRef)
        \o ",\"remote_tag_missing\":" \o JSONBool(t.RemoteTagMissing)
        \o ",\"working_directory\":" \o JSONString(t.WorkingDirectory)
        \o ",\"target_platforms\":" \o JSONString(t.TargetPlatformStr)
        \o ",\"build_args\":" \o JSONString(t.BuildArgsStr)
        \o "}"

\* json.Marshal of a []Target
JSONTargets(ts) == "[" \o Join([i \in 1..Len(ts) |-> JSONTarget(ts[i])], ",") \o "]"

\* outputGitHubJSON without the empty case: json.Marshal of a slice with no
\* entries that is nil
outputGitHubJSONNull(missingTags) ==
    IF Len(missingTags) = 0 THEN "targets=null\n"
    ELSE "targets=" \o JSONTargets(missingTags) \o "\n"

outputGitHubJSON(missingTags) ==
    IF Len(missingTags) = 0 THEN "targets=[]"
    ELSE "targets=" \o JSONTargets(missingTags) \o "\n"

\* fmt.Println
Println(str) == str \o "\n"

\* Run: filterMissingTags, outputGitHubJSON and the print to standard output
Output ==
    /\ pc = "output"
    /\ \E order \in Orderings(DOMAIN repos) :
        /\ runMissingTags' = filterMissingTags(repos, order)
        /\ output' = output \o Println(outputGitHubJSON(filterMissingTags(repos, order)))
    /\ pc' = "done"
    /\ UNCHANGED <<defaultConfigData, dirIdx, addr, repos, err, fixedVars, checkVars>>

-----------------------------------------------------------------------------
(* Inputs of the resolution runs *)

\* the most targets a child file of the resolution runs declares
MaxTargets == 1

\* a *string field of an input file: absent, the empty string, or v
OptStr(v) == {Nil, Ptr(""), Ptr(v)}

\* the defaults files: every combination of the three default_* keys
DefaultsRecords ==
    {NewRepoConfig(a, r, n, Nil, Nil, Nil, Nil, Nil) :
        a \in OptStr("111111111111"), r \in OptStr("eu-west-1"),
        n \in OptStr("default-role")}

\* the targets a child file can declare
DeclaredTargets ==
    {NewTarget(a, r, n, FALSE) :
        a \in OptStr("222222222222"), r \in OptStr("eu-west-2"),
        n \in OptStr("my-iam-role")}

\* the values of a targets key: absent, the empty list, or up to n targets
RECURSIVE TargetLists(_)
TargetLists(n) ==
    IF n = 0 THEN {<<>>}
    ELSE TargetLists(n - 1) \cup
         {Append(l, t) : l \in {l \in TargetLists(n - 1) : Len(l) = n - 1},
                         t \in DeclaredTargets}

TargetsKeys(n) == {Nil} \cup {Ptr(l) : l \in TargetLists(n)}

\* the child files: valid name, tag and platforms, any targets key, and the
\* default_* keys a child file may carry itself
ResolveChildren ==
    {NewRepoConfig(a, r, Nil, Ptr("repo-1"), Ptr("alpine"),
                   Ptr(<<"linux/amd64">>), Nil, t) :
        a \in OptStr("333333333333"), r \in OptStr("eu-west-3"),
        t \in TargetsKeys(MaxTargets)}

NoRemote == <<>>

\* the state of a run before Run has executed anything
InitRun ==
    /\ defaultConfigData = EmptyRepoConfig
    /\ dirIdx = 1
    /\ addr = <<>>
    /\ repos = <<>>
    /\ err = NoErr
    /\ output = ""
    /\ runMissingTags = <<>>
    /\ visited = {}
    /\ cur = Nil
    /\ nextToken = ""
    /\ ecrClient = Nil
    /\ calls = <<>>
    /\ recorded = {}
    /\ firstRun = Nil

\* a run over one image directory, from a defaults file and a child file
InitResolve ==
    /\ pc = "start"
    /\ \E d \in DefaultsRecords, c \in ResolveChildren :
        fs = [defaults |-> File("ok", d), listable |-> TRUE,
              dirs |-> <<DirEntry("image-1", TRUE, File("ok", c))>>]
    /\ remote = NoRemote
    /\ InitRun

NextResolve == Start \/ ParseChildDir \/ ParseChildDone \/ Validate

SpecResolve == InitResolve /\ [][NextResolve]_vars

-----------------------------------------------------------------------------
(* The whole run *)

\* the most pages of a repository's listing
MaxPages == 2

\* the ImageTag pointers of a page's ImageIds: none, entries without the tag
\* (one of them with a nil tag), and entries with the tag among others
TagSets == {{}, {Nil, Ptr("other")}, {Ptr("other"), Ptr("alpine")}}

\* the listings of n pages: every page but the last has the token of the
\* page after it; the last page has no NextToken, or a NextToken that is
\* present and is the empty string
RECURSIVE ListingsFrom(_, _)
ListingsFrom(k, n) ==
    IF k = n THEN {<<Page(tags, next)>> : tags \in TagSets, next \in {Nil, Ptr("")}}
    ELSE {<<Page(tags, Ptr(Tok(k + 1)))>> \o rest :
            tags \in TagSets, rest \in ListingsFrom(k + 1, n)}

Listings == UNION {ListingsFrom(1, n) : n \in 1..MaxPages}

Regions == {"eu-west-1", "eu-west-2"}
RepoNames == {"repo-1", "repo-2"}

\* the registries: account 111111111111 holds both repositories in both
\* regions with the listing l; account 222222222222 holds them with a listing
\* of one page, or does not hold them
Remotes ==
    {[r \in ({"111111111111"} \X Regions \X RepoNames) \cup
            (IF other = {} THEN {} ELSE {"222222222222"} \X Regions \X RepoNames) |->
        IF r[1] = "111111111111" THEN l ELSE <<Page(CHOOSE tags \in other : TRUE, Nil)>>] :
        l \in Listings, other \in {{}, {{Nil, Ptr("other")}}, {{Ptr("alpine")}}}}

RunDefaults ==
    {NewRepoConfig(Ptr("111111111111"), Ptr("eu-west-1"), n, Nil, Nil, Nil, Nil, Nil) :
        n \in {Nil, Ptr("default-role")}}

\* the child files of image-1: no targets key; two targets, the second taking
\* account id and region from the defaults and naming a role; one target that
\* overrides the role with the empty string and sets remotetagmissing; one
\* target that names no role and sets awsrolearn; one target that overrides
\* the role with the empty string and sets awsrolearn
RunChildren ==
    {NewRepoConfig(Nil, Nil, Nil, Ptr("repo-1"), Ptr("alpine"),
                   Ptr(<<"linux/arm64", "linux/amd64">>),
                   Ptr([a \in {"ARG1"} |-> <<"v">>]), t) :
        t \in {Nil,
               Ptr(<<NewTarget(Ptr("222222222222"), Ptr("eu-west-2"), Nil, FALSE),
                     NewTarget(Nil, Nil, Ptr("my-iam-role"), FALSE)>>),
               Ptr(<<NewTarget(Ptr("111111111111"), Ptr("eu-west-2"), Ptr(""), TRUE)>>),
               Ptr(<<[NewTarget(Ptr("111111111111"), Ptr("eu-west-2"), Nil, FALSE)
                        EXCEPT !.AWSRoleARN = RoleARN("000000000000", "preset-role")]>>),
               Ptr(<<[NewTarget(Ptr("111111111111"), Ptr("eu-west-1"), Ptr(""), FALSE)
                        EXCEPT !.AWSRoleARN = RoleARN("000000000000", "preset-role")]>>)}}

\* image-2: no config file, a file that does not parse, a child file without
\* repo_tag, a child file without a targets key, or a child file with one
\* target
RunSecondFiles ==
    {NoFile,
     File("malformed", EmptyRepoConfig),
     File("ok", NewRepoConfig(Nil, Nil, Nil, Ptr("repo-2"), Nil,
                              Ptr(<<"linux/amd64">>), Nil, Nil)),
     File("ok", NewRepoConfig(Nil, Nil, Nil, Ptr("repo-2"), Ptr("alpine"),
                              Ptr(<<"linux/amd64">>), Nil, Nil)),
     File("ok", NewRepoConfig(Nil, Nil, Nil, Ptr("repo-2"), Ptr("alpine"),
                              Ptr(<<"linux/amd64">>), Nil,
                              Ptr(<<NewTarget(Ptr("222222222222"), Nil, Nil, FALSE)>>)))}

Init ==
    /\ pc = "start"
    /\ \E d \in RunDefaults, c \in RunChildren, f \in RunSecondFiles :
        fs = [defaults |-> File("ok", d), listable |-> TRUE,
              dirs |-> <<DirEntry("image-1", TRUE, File("ok", c)),
                         DirEntry("readme.md", FALSE, NoFile),
                         DirEntry("image-2", TRUE, f)>>]
    /\ remote \in Remotes
    /\ InitRun

Next ==
    \/ Start
    \/ ParseChildDir
    \/ ParseChildDone
    \/ Validate
    \/ AddCalculatedFields
    \/ CheckNext
    \/ SetupECRClient
    \/ ListImagesCall
    \/ Output

Spec == Init /\ [][Next]_vars

-----------------------------------------------------------------------------
(* What the properties speak of *)

\* the directory entries whose child file has been merged into c.repos
Resolved == {j \in 1..Len(fs.dirs) : sourceConfigFilePath(fs.dirs[j].name) \in DOMAIN repos}

\* the defaults D, the child C as its file declares it, and resolve(D, C)
DefaultsOf == fs.defaults.data
ChildOf(j) == fs.dirs[j].file.data
ResolvedOf(j) == repos[sourceConfigFilePath(fs.dirs[j].name)]

\* validate has accepted c.repos
Validated == pc \in {"decorate", "panic", "check", "setup", "list", "output", "done"}
             \/ (pc = "error" /\ err.msg \in {"setting up ECR client", "listing Docker tags"})

\* validate has rejected c.repos
Rejected ==
    pc = "error" /\ err.msg \in
        {"repo_name not set", "repo_tag not set",
         "targets not set either at the child level or via defaults",
         "target_platforms not set", "target_platforms cannot contain empty values",
         "build_args must have at one key/pair when defined",
         "build_args must have no empty values",
         "aws_account_id not set and there is no default set",
         "aws_region not set and there is no default set"}

\* validate has returned
ValidateReturned == Validated \/ Rejected

\* every record of c.repos other than k passes the loop body of validate
OthersPass(k) == \A k2 \in DOMAIN repos \ {k} : validateRepo(k2, repos[k2]) = {}

TargetFields == {"AwsAccountId", "AwsRegion", "AwsRoleName"}
DefaultField(f) ==
    CASE f = "AwsAccountId" -> "DefaultAwsAccountId"
      [] f = "AwsRegion" -> "DefaultRegion"
      [] f = "AwsRoleName" -> "DefaultAwsRoleName"

-----------------------------------------------------------------------------
(* Properties of the remote tag check *)

\* the check of the target at (key, idx) has run to its end
Checked(key, idx) ==
    /\ key \in DOMAIN repos
    /\ idx \in 1..SliceLen(repos[key].Targets)
    /\ \/ key \in visited
       \/ cur # Nil /\ Deref(cur).key = key /\ idx < Deref(cur).idx

\* the repository the target at (key, idx) names: its own account id and
\* region and its record's repository name
TargetRepository(key, idx) ==
    <<readStrPointer(Deref(repos[key].Targets)[idx].AwsAccountId),
      readStrPointer(Deref(repos[key].Targets)[idx].AwsRegion),
      readStrPointer(repos[key].RepoName)>>

\* some page of the listing has an entry whose tag is the record's repo tag
TagListed(listing, key) ==
    \E k \in 1..Len(listing) : Ptr(Deref(repos[key].RepoTag)) \in listing[k].tags

\* the first page of the listing that has the tag
FirstPageWithTag(listing, key) ==
    CHOOSE k \in 1..Len(listing) :
        /\ Ptr(Deref(repos[key].RepoTag)) \in listing[k].tags
        /\ \A j \in 1..(k - 1) : Ptr(Deref(repos[key].RepoTag)) \notin listing[j].tags

\* C1: for every target whose list calls all succeeded, the checker records
\* the target as missing if and only if no page of its repository's listing
\* has an entry with the record's tag.
C1_MissingIffTagOnNoPage ==
    \A sl \in AllSlots(repos) :
        Checked(sl[1], sl[2]) =>
            /\ TargetRepository(sl[1], sl[2]) \in DOMAIN remote
            /\ (sl \in recorded) <=> ~TagListed(remote[TargetRepository(sl[1], sl[2])], sl[1])
            /\ sl \in recorded => Deref(repos[sl[1]].Targets)[sl[2]].RemoteTagMissing

\* a target found present on the second page of its listing after two calls,
\* and a target recorded as missing after its listing of two pages ran out
C1_Witness ==
    /\ \E sl \in AllSlots(repos) :
        /\ Checked(sl[1], sl[2])
        /\ sl \notin recorded
        /\ FirstPageWithTag(remote[TargetRepository(sl[1], sl[2])], sl[1]) = 2
        /\ Cardinality(CallsFor(sl[1], sl[2])) = 2
    /\ \E sl \in AllSlots(repos) :
        /\ Checked(sl[1], sl[2])
        /\ sl \in recorded
        /\ Cardinality(CallsFor(sl[1], sl[2])) = 1

\* C2: a failed list call ends the run at once with an error: it is the last
\* list call, its target is not recorded as missing, no client is built for
\* another target, and nothing is written to standard output.
C2_ListFailureEndsRun ==
    \A n \in 1..Len(calls) :
        ~calls[n].ok =>
            /\ n = Len(calls)
            /\ pc = "error"
            /\ err.msg = "listing Docker tags"
            /\ err.key = calls[n].key
            /\ <<calls[n].key, calls[n].idx>> \notin recorded
            /\ cur = Ptr([key |-> calls[n].key, idx |-> calls[n].idx])
            /\ ecrClient = Ptr(calls[n].client)
            /\ output = ""

\* a list call failed on the second page of a target while another record
\* was still unchecked
C2_Witness ==
    \E n \in 1..Len(calls) :
        /\ ~calls[n].ok
        /\ n > 1
        /\ calls[n - 1].key = calls[n].key /\ calls[n - 1].idx = calls[n].idx
        /\ DOMAIN repos \ (visited \cup {calls[n].key}) # {}
        /\ pc = "error"
        /\ output = ""

\* the listing for the target at (key, idx) ran to a page with no
\* continuation token without a page that has the tag
ListedWithoutTag(key, idx) ==
    /\ \E n \in CallsFor(key, idx) : calls[n].ok /\ calls[n].page.next = Nil
    /\ \A n \in CallsFor(key, idx) :
          calls[n].ok /\ Ptr(Deref(repos[key].RepoTag)) \notin calls[n].page.tags

\* C3: a target has remoteTagMissing = true only if a listing for it completed
\* successfully without finding the tag; the flag is false for every target
\* before the remote tag check runs, and no input sets it.
C3_MissingOnlyFromCompletedListing ==
    \A sl \in AllSlots(repos) :
        Deref(repos[sl[1]].Targets)[sl[2]].RemoteTagMissing =>
            ListedWithoutTag(sl[1], sl[2])

-----------------------------------------------------------------------------
(* Properties of resolution *)

\* C4: after resolution and a successful validation every target of every
\* record has a non-empty account id and a non-empty region.
C4_ValidatedTargetsHaveAccountAndRegion ==
    Validated =>
        \A k \in DOMAIN repos : \A i \in 1..SliceLen(repos[k].Targets) :
            LET t == Deref(repos[k].Targets)[i]
            IN  ~strPtrEmpty(t.AwsAccountId) /\ ~strPtrEmpty(t.AwsRegion)

\* C5: a target the child declares with an explicit account id has the same
\* account id after resolve, whatever the defaults contain.
C5_ExplicitAccountIdKept ==
    \A j \in Resolved : \A i \in 1..SliceLen(ChildOf(j).Targets) :
        Deref(ChildOf(j).Targets)[i].AwsAccountId # Nil =>
            /\ SliceLen(ResolvedOf(j).Targets) = SliceLen(ChildOf(j).Targets)
            /\ Deref(ResolvedOf(j).Targets)[i].AwsAccountId
                   = Deref(ChildOf(j).Targets)[i].AwsAccountId

\* a resolved record whose child declared an explicit account id that differs
\* from a non-empty default account id
C5_Witness ==
    \E j \in Resolved : \E i \in 1..SliceLen(ChildOf(j).Targets) :
        /\ ~strPtrEmpty(DefaultsOf.DefaultAwsAccountId)
        /\ Deref(ChildOf(j).Targets)[i].AwsAccountId # Nil
        /\ Deref(ChildOf(j).Targets)[i].AwsAccountId # DefaultsOf.DefaultAwsAccountId
        /\ Deref(ResolvedOf(j).Targets)[i].AwsAccountId
               = Deref(ChildOf(j).Targets)[i].AwsAccountId

\* C6: for every declared target and each of account id, region and role
\* name: a field the target leaves unset equals the default after resolve when
\* the default is non-empty, and every field the target declares itself is
\* unchanged.
C6_UnsetFieldsTakeDefaults ==
    \A j \in Resolved : \A i \in 1..SliceLen(ChildOf(j).Targets) :
        \A f \in TargetFields :
            LET declared == Deref(ChildOf(j).Targets)[i]
                resolved == Deref(ResolvedOf(j).Targets)[i]
                default == DefaultsOf[DefaultField(f)]
            IN  /\ (declared[f] = Nil /\ ~strPtrEmpty(default)) => resolved[f] = default
                /\ declared[f] # Nil => resolved[f] = declared[f]

\* a resolved target that took one field from the defaults and kept another
\* that it declared itself
C6_Witness ==
    \E j \in Resolved : \E i \in 1..SliceLen(ChildOf(j).Targets) :
        \E f, g \in TargetFields :
            LET declared == Deref(ChildOf(j).Targets)[i]
                resolved == Deref(ResolvedOf(j).Targets)[i]
            IN  /\ declared[f] = Nil
                /\ ~strPtrEmpty(DefaultsOf[DefaultField(f)])
                /\ resolved[f] = DefaultsOf[DefaultField(f)]
                /\ ~strPtrEmpty(declared[g])
                /\ ~strPtrEmpty(DefaultsOf[DefaultField(g)])
                /\ resolved[g] = declared[g]
                /\ resolved[g] # DefaultsOf[DefaultField(g)]

\* C7: when the defaults have both account id and region and the child
\* declares no targets (key absent or empty list), resolve yields exactly one
\* target, with the defaults' account id and region, and with the defaults'
\* role name when the defaults have one.
C7_ImplicitTargetFromDefaults ==
    \A j \in Resolved :
        (/\ SliceLen(ChildOf(j).Targets) = 0
         /\ DefaultsOf.DefaultAwsAccountId # Nil
         /\ DefaultsOf.DefaultRegion # Nil) =>
            /\ SliceLen(ResolvedOf(j).Targets) = 1
            /\ Deref(ResolvedOf(j).Targets)[1].AwsAccountId = DefaultsOf.DefaultAwsAccountId
            /\ Deref(ResolvedOf(j).Targets)[1].AwsRegion = DefaultsOf.DefaultRegion
            /\ Deref(ResolvedOf(j).Targets)[1].AwsRoleName = DefaultsOf.DefaultAwsRoleName

\* a record resolved from a child with an empty targets list and defaults
\* that have account id, region and role name
C7_Witness ==
    \E j \in Resolved :
        /\ ChildOf(j).Targets = Ptr(<<>>)
        /\ ~strPtrEmpty(DefaultsOf.DefaultAwsAccountId)
        /\ ~strPtrEmpty(DefaultsOf.DefaultRegion)
        /\ ~strPtrEmpty(DefaultsOf.DefaultAwsRoleName)
        /\ SliceLen(ResolvedOf(j).Targets) = 1
        /\ Deref(ResolvedOf(j).Targets)[1].AwsRoleName = DefaultsOf.DefaultAwsRoleName

\* C8: when a child declares no targets and the defaults lack the account id
\* or the region (absent or empty), resolve synthesizes no target and validate
\* rejects the record.
C8_NoImplicitTargetWithoutDefaults ==
    \A j \in Resolved :
        (/\ SliceLen(ChildOf(j).Targets) = 0
         /\ (strPtrEmpty(DefaultsOf.DefaultAwsAccountId)
             \/ strPtrEmpty(DefaultsOf.DefaultRegion))) =>
            /\ SliceLen(ResolvedOf(j).Targets) = 0
            /\ ~Validated

\* the record carries a non-empty default for the field f of its targets
DefaultAvailable(repo, f) == ~strPtrEmpty(repo[DefaultField(f)])

\* the field f of the target is resolvable: set and non-empty, or defaulted
Resolvable(repo, target, f) == ~strPtrEmpty(target[f]) \/ DefaultAvailable(repo, f)

\* the targets of the record with an account id or region that is not resolvable
Unresolvable(repo) ==
    {i \in 1..SliceLen(repo.Targets) :
        \E f \in {"AwsAccountId", "AwsRegion"} : ~Resolvable(repo, Deref(repo.Targets)[i], f)}

\* the record passes every check of validate that comes before the targets' fields
PassesRecordChecks(k) ==
    /\ ~strPtrEmpty(repos[k].RepoName)
    /\ ~strPtrEmpty(repos[k].RepoTag)
    /\ SliceLen(repos[k].Targets) > 0
    /\ validatePlatforms(k, repos[k]) = {}
    /\ validateBuildArgs(k, repos[k]) = {}

TargetFieldMsgs ==
    [AwsAccountId |-> "aws_account_id not set and there is no default set",
     AwsRegion |-> "aws_region not set and there is no default set"]

\* C11: validate accepts a target whose account id (region) is unset or empty
\* if and only if the record it validates carries a non-empty default account
\* id (region); a target with neither makes validate fail, and the error names
\* the record's path, the target and the field that is missing.
C11_UnsetFieldNeedsDefault ==
    /\ Validated => \A k \in DOMAIN repos : Unresolvable(repos[k]) = {}
    /\ \A k \in DOMAIN repos :
          (/\ ValidateReturned
           /\ PassesRecordChecks(k)
           /\ OthersPass(k)) =>
              IF Unresolvable(repos[k]) = {} THEN Validated
              ELSE /\ Rejected
                   /\ err.key = k
                   /\ err.idx + 1 \in Unresolvable(repos[k])
                   /\ \A i \in Unresolvable(repos[k]) : err.idx + 1 <= i
                   /\ \E f \in {"AwsAccountId", "AwsRegion"} :
                         /\ err.msg = TargetFieldMsgs[f]
                         /\ ~Resolvable(repos[k], Deref(repos[k].Targets)[err.idx + 1], f)

\* validate has rejected a record for a target whose empty account id was
\* covered by the record's default while its region had neither value nor default
C11_Witness ==
    \E k \in DOMAIN repos :
        /\ Rejected
        /\ err.key = k
        /\ err.msg = TargetFieldMsgs["AwsRegion"]
        /\ Deref(repos[k].Targets)[err.idx + 1].AwsAccountId = Ptr("")
        /\ DefaultAvailable(repos[k], "AwsAccountId")
        /\ Deref(repos[k].Targets)[err.idx + 1].AwsRegion = Nil
        /\ repos[k].DefaultRegion = Ptr("")

-----------------------------------------------------------------------------
(* Inputs of the runs up to addCalculatedFields *)

\* targets whose file names the calculated field AWSRoleARN under the key
\* yaml.v3 gives a field without a yaml tag (awsrolearn), with any role name
PresetTargets ==
    {[NewTarget(Ptr("222222222222"), Ptr("eu-west-2"), n, FALSE)
        EXCEPT !.AWSRoleARN = RoleARN("000000000000", "preset-role"),
               !.FullImageRef = "preset-ref",
               !.WorkingDirectory = "preset-dir"] :
        n \in OptStr("my-iam-role")}

\* the child files: two platforms, build args or none, any targets key, and
\* the default_* keys a child file may carry itself
DecorateChildren ==
    {NewRepoConfig(a, r, Nil, Ptr("repo-1"), Ptr("alpine"),
                   Ptr(<<"linux/arm64", "linux/amd64">>), b, t) :
        a \in {Nil, Ptr("333333333333")}, r \in {Nil, Ptr("eu-west-3")},
        b \in {Nil, Ptr([n \in {"ARG1", "ARG2"} |->
                            IF n = "ARG1" THEN <<"v">> ELSE <<" ", "v", " ">>])},
        t \in TargetsKeys(MaxTargets) \cup {Ptr(<<p>>) : p \in PresetTargets}}

InitDecorate ==
    /\ pc = "start"
    /\ \E d \in DefaultsRecords, c \in DecorateChildren :
        fs = [defaults |-> File("ok", d), listable |-> TRUE,
              dirs |-> <<DirEntry("image-1", TRUE, File("ok", c))>>]
    /\ remote = NoRemote
    /\ InitRun

NextDecorate ==
    Start \/ ParseChildDir \/ ParseChildDone \/ Validate \/ AddCalculatedFields

SpecDecorate == InitDecorate /\ [][NextDecorate]_vars

-----------------------------------------------------------------------------
(* Properties of the calculated fields *)

\* addCalculatedFields has returned
Decorated == pc \in {"check", "setup", "list", "output", "done"}
             \/ (pc = "error" /\ err.msg \in {"setting up ECR client", "listing Docker tags"})

\* addCalculatedFields has been called on the validated records
DecorateCalled == Decorated \/ pc = "panic"

\* C12: for every target of every validated record, the derived role ARN is
\* non-empty if and only if the target's role name is non-empty, and when
\* non-empty it is "arn:aws:iam::" + accountId + ":role/" + roleName.
C12_RoleARNIffRoleName ==
    DecorateCalled =>
        \A sl \in AllSlots(repos) :
            LET t == Deref(repos[sl[1]].Targets)[sl[2]]
            IN  /\ (t.AWSRoleARN # "") <=> ~strPtrEmpty(t.AwsRoleName)
                /\ t.AWSRoleARN # "" =>
                      /\ t.AwsAccountId # Nil
                      /\ t.AWSRoleARN = "arn:aws:iam::" \o Deref(t.AwsAccountId)
                                           \o ":role/" \o Deref(t.AwsRoleName)

\* C13: for every target of every validated record, once the calculated
\* fields have been added, the full image reference is accountId + ".dkr.ecr."
\* + region + ".amazonaws.com/" + repoName + ":" + repoTag from the target's
\* account id and region and its record's name and tag, and the working
\* directory is the directory part of the record's source path.
C13_FullImageRefAndWorkingDirectory ==
    DecorateCalled =>
        \A sl \in AllSlots(repos) :
            LET repo == repos[sl[1]]
                t == Deref(repo.Targets)[sl[2]]
            IN  /\ t.AwsAccountId # Nil /\ t.AwsRegion # Nil
                /\ t.FullImageRef =
                      Deref(t.AwsAccountId) \o ".dkr.ecr." \o Deref(t.AwsRegion)
                        \o ".amazonaws.com/" \o Deref(repo.RepoName)
                        \o ":" \o Deref(repo.RepoTag)
                /\ \E n \in DirNames :
                      /\ sl[1] = imageDirectory \o "/" \o n \o "/" \o childConfigFile
                      /\ t.WorkingDirectory = imageDirectory \o "/" \o n

\* C14: addCalculatedFields has no failure path: on every record collection
\* that validate accepted it completes without dereferencing a nil account
\* id, region, repository name or tag.
C14_DecorateNeverPanics ==
    /\ pc # "panic"
    /\ Validated =>
          \A sl \in AllSlots(repos) :
              /\ ~NilDeref(Deref(repos[sl[1]].Targets)[sl[2]])
              /\ repos[sl[1]].RepoName # Nil
              /\ repos[sl[1]].RepoTag # Nil

-----------------------------------------------------------------------------
(* Inputs of the validation runs *)

\* the most entries of a target_platforms list and of a build_args mapping
MaxPlatforms == 2
MaxBuildArgs == 2

RECURSIVE SeqsUpTo(_, _)
SeqsUpTo(S, n) ==
    IF n = 0 THEN {<<>>}
    ELSE SeqsUpTo(S, n - 1) \cup
         {Append(l, x) : l \in {l \in SeqsUpTo(S, n - 1) : Len(l) = n - 1}, x \in S}

\* the values of a target_platforms key: absent, or a list with entries that
\* may be empty strings
PlatformsKeys == {Nil} \cup {Ptr(l) : l \in SeqsUpTo({"", "linux/amd64"}, MaxPlatforms)}

ArgNames == <<"ARG1", "ARG2", "ARG3", "ARG4">>

\* build-arg values: empty, whitespace only, and two that are not blank
ArgValues == {<<>>, <<" ", "\t">>, <<"v">>, <<" ", "v", " ">>}

\* the values of a build_args key: absent, or a mapping (possibly empty)
BuildArgsKeys ==
    {Nil} \cup
    UNION {{Ptr(m) : m \in [{ArgNames[i] : i \in ks} -> ArgValues]} :
              ks \in SUBSET (1..MaxBuildArgs)}

ValidTarget == NewTarget(Ptr("222222222222"), Ptr("eu-west-2"), Nil, FALSE)

\* the child files of the validation runs: any platforms and build_args, with
\* the other fields valid or not
ValidateChildren ==
    {NewRepoConfig(Nil, Nil, Nil, n, g, p, b, t) :
        n \in {Nil, Ptr("repo-1")}, g \in {Ptr(""), Ptr("alpine")},
        p \in PlatformsKeys, b \in BuildArgsKeys,
        t \in {Nil, Ptr(<<ValidTarget>>),
               Ptr(<<ValidTarget, NewTarget(Ptr(""), Nil, Nil, FALSE)>>)}}

\* a second image directory: a valid child file, or one without repo_name
OtherChildren ==
    {NewRepoConfig(Nil, Nil, Nil, n, Ptr("3.20"), Ptr(<<"linux/arm64">>), Nil,
                   Ptr(<<ValidTarget>>)) : n \in {Nil, Ptr("repo-2")}}

InitValidate ==
    /\ pc = "start"
    /\ \E d \in {EmptyRepoConfig,
                 NewRepoConfig(Ptr("111111111111"), Ptr("eu-west-1"), Nil,
                               Nil, Nil, Nil, Nil, Nil)},
          c \in ValidateChildren, o \in OtherChildren :
        fs = [defaults |-> File("ok", d), listable |-> TRUE,
              dirs |-> <<DirEntry("image-1", TRUE, File("ok", c)),
                         DirEntry("image-2", TRUE, File("ok", o))>>]
    /\ remote = NoRemote
    /\ InitRun

NextValidate == Start \/ ParseChildDir \/ ParseChildDone \/ Validate

SpecValidate == InitValidate /\ [][NextValidate]_vars

-----------------------------------------------------------------------------
(* Properties of validation *)

\* a target_platforms list that is nil, empty, or has an empty-string entry
BadPlatforms(repo) ==
    \/ repo.TargetPlatforms = Nil
    \/ Deref(repo.TargetPlatforms) = <<>>
    \/ \E i \in 1..Len(Deref(repo.TargetPlatforms)) : Deref(repo.TargetPlatforms)[i] = ""

\* a build-arg value that is empty or whitespace only
Blank(v) == \A i \in 1..Len(v) : IsSpace(v[i])

\* a build_args mapping that is present but has no entries, or has a blank value
BadBuildArgs(repo) ==
    /\ repo.BuildArgs # Nil
    /\ \/ DOMAIN Deref(repo.BuildArgs) = {}
       \/ \E a \in DOMAIN Deref(repo.BuildArgs) : Blank(Deref(repo.BuildArgs)[a])

BuildArgsMsgs == {"build_args must have at one key/pair when defined",
                  "build_args must have no empty values"}

\* C9: validate fails for every record whose target_platforms list is nil,
\* empty or contains an empty-string entry, whatever the record's other
\* fields are; the error names that record's path (when another record of the
\* collection fails too, the path of one of the failing records).
C9_BadPlatformsRejected ==
    \A k \in DOMAIN repos :
        (BadPlatforms(repos[k]) /\ ValidateReturned) =>
            /\ Rejected
            /\ err.key \in DOMAIN repos
            /\ OthersPass(k) => err.key = k
            /\ validateRepo(err.key, repos[err.key]) # {}

\* validate has rejected a record whose only fault is an empty-string entry
\* in target_platforms, naming its path
C9_Witness ==
    \E k \in DOMAIN repos :
        /\ Rejected
        /\ err.key = k
        /\ err.msg = "target_platforms cannot contain empty values"
        /\ repos[k].TargetPlatforms # Nil
        /\ Len(Deref(repos[k].TargetPlatforms)) > 1
        /\ ~BadBuildArgs(repos[k])
        /\ OthersPass(k)

\* C10: validate fails for every record whose build_args mapping is present
\* with no entries or has a blank (empty or whitespace-only) value; a record
\* with no build_args key is never rejected for its build_args.
C10_BadBuildArgsRejected ==
    /\ \A k \in DOMAIN repos :
          (BadBuildArgs(repos[k]) /\ ValidateReturned) => Rejected
    /\ (Rejected /\ err.msg \in BuildArgsMsgs) =>
          /\ err.key \in DOMAIN repos
          /\ BadBuildArgs(repos[err.key])
    /\ \A k \in DOMAIN repos :
          (/\ ValidateReturned
           /\ repos[k].BuildArgs = Nil
           /\ OthersPass(k)
           /\ ~strPtrEmpty(repos[k].RepoName)
           /\ ~strPtrEmpty(repos[k].RepoTag)
           /\ ~BadPlatforms(repos[k])
           /\ SliceLen(repos[k].Targets) > 0
           /\ Unresolvable(repos[k]) = {}) => Validated

\* validate has rejected a record for a whitespace-only build-arg value
C10_Witness ==
    \E k \in DOMAIN repos :
        /\ Rejected
        /\ err.key = k
        /\ err.msg = "build_args must have no empty values"
        /\ Deref(repos[k].BuildArgs)[err.arg] = <<" ", "\t">>

-----------------------------------------------------------------------------
(* Inputs of the aggregation runs *)

\* the most targets of a record handed to filterMissingTags
MaxRecordTargets == 2

\* targets as the checker can leave them: flagged or not, told apart by their
\* full image reference
AggregateTargets ==
    {[NewTarget(Nil, Nil, Nil, m) EXCEPT !.FullImageRef = r] :
        m \in BOOLEAN, r \in {"ref-1", "ref-2"}}

\* records with any targets: nil, an empty list, or up to MaxRecordTargets
AggregateRecords ==
    {NewRepoConfig(Nil, Nil, Nil, Ptr("repo-1"), Nil, Nil, Nil, t) :
        t \in {Nil} \cup {Ptr(l) : l \in SeqsUpTo(AggregateTargets, MaxRecordTargets)}}

\* the record collections: a nil (empty) map, or records under one or two keys
AggregateCollections ==
    UNION {[ks -> AggregateRecords] :
              ks \in SUBSET {sourceConfigFilePath("image-1"),
                             sourceConfigFilePath("image-2")}}

\* Run at the call of filterMissingTags, on any record collection
InitAggregate ==
    /\ pc = "output"
    /\ fs = [defaults |-> File("ok", EmptyRepoConfig), listable |-> TRUE, dirs |-> <<>>]
    /\ remote = NoRemote
    /\ defaultConfigData = EmptyRepoConfig
    /\ dirIdx = 1
    /\ repos \in AggregateCollections
    /\ addr = [sl \in AllSlots(repos) |-> sl]
    /\ err = NoErr
    /\ output = ""
    /\ runMissingTags = <<>>
    /\ visited = DOMAIN repos
    /\ cur = Nil
    /\ nextToken = ""
    /\ ecrClient = Nil
    /\ calls = <<>>
    /\ recorded = {}
    /\ firstRun = Nil

NextAggregate == Output

SpecAggregate == InitAggregate /\ [][NextAggregate]_vars

-----------------------------------------------------------------------------
(* Properties of the output *)

\* the target at a (key, idx) of a record collection
TargetAt(rs, sl) == Deref(rs[sl[1]].Targets)[sl[2]]

\* the (key, idx) of the targets flagged as missing
FlaggedSlots(rs) == {sl \in AllSlots(rs) : TargetAt(rs, sl).RemoteTagMissing}

\* how many entries of a slice equal v
Occurrences(slice, v) == Cardinality({i \in 1..Len(slice) : slice[i] = v})

\* C15: for every record collection (the nil one included) the aggregate
\* holds exactly the targets flagged as missing: as many entries as there are
\* flagged targets over all records, every entry flagged, every flagged target
\* present as often as it occurs, and nothing from a record without one.
C15_AggregateIsTheMissingTargets ==
    pc = "done" =>
        /\ Len(runMissingTags) = Cardinality(FlaggedSlots(repos))
        /\ \A i \in 1..Len(runMissingTags) : runMissingTags[i].RemoteTagMissing
        /\ \A sl \in FlaggedSlots(repos) :
              Occurrences(runMissingTags, TargetAt(repos, sl)) =
                  Cardinality({sl2 \in FlaggedSlots(repos) :
                                  TargetAt(repos, sl2) = TargetAt(repos, sl)})
        /\ \A sl \in AllSlots(repos) \ FlaggedSlots(repos) :
              Occurrences(runMissingTags, TargetAt(repos, sl)) = 0

\* two records aggregated, one with a single flagged target and one with a
\* flagged and an unflagged target: two entries
C15_Witness ==
    /\ pc = "done"
    /\ Len(runMissingTags) = 2
    /\ \E k1, k2 \in DOMAIN repos :
          /\ k1 # k2
          /\ SliceLen(repos[k1].Targets) = 1
          /\ <<k1, 1>> \in FlaggedSlots(repos)
          /\ SliceLen(repos[k2].Targets) = 2
          /\ Cardinality({sl \in FlaggedSlots(repos) : sl[1] = k2}) = 1

\* C16: when no target of any record is flagged as missing, a successful run
\* writes the manifest targets=[] : the key with an empty array, not null and
\* not left out.
C16_EmptyManifest ==
    (pc = "done" /\ FlaggedSlots(repos) = {}) =>
        /\ runMissingTags = <<>>
        /\ output = "targets=[]" \o "\n"

\* a run that listed the repository of every target, found every tag and
\* wrote the empty manifest
C16_Witness ==
    /\ pc = "done"
    /\ AllSlots(repos) # {}
    /\ FlaggedSlots(repos) = {}
    /\ \A sl \in AllSlots(repos) : \E n \in CallsFor(sl[1], sl[2]) : calls[n].ok
    /\ output = "targets=[]" \o "\n"

\* C17: every successful run writes exactly one line to standard output,
\* targets=<json-array> and its line end, whether the array is empty or not;
\* no further line and no blank line.
C17_OneLineOfOutput ==
    pc = "done" => output = "targets=" \o JSONTargets(runMissingTags) \o "\n"

-----------------------------------------------------------------------------
(* The remote tag check called twice *)

\* the RemoteTagMissing of every target of c.repos
FlagsOf(rs) == [sl \in AllSlots(rs) |-> TargetAt(rs, sl).RemoteTagMissing]

\* checkECRImageTags has returned nil and is called again over the same
\* c.repos: its loops start afresh
Recheck ==
    /\ pc = "output"
    /\ firstRun = Nil
    /\ firstRun' = Ptr(FlagsOf(repos))
    /\ pc' = "check"
    /\ visited' = {}
    /\ cur' = Nil
    /\ calls' = <<>>
    /\ UNCHANGED <<defaultConfigData, dirIdx, addr, repos, err, outVars, inputVars,
                   nextToken, ecrClient, recorded>>

NextRecheck ==
    \/ Start
    \/ ParseChildDir
    \/ ParseChildDone
    \/ Validate
    \/ AddCalculatedFields
    \/ CheckNext
    \/ SetupECRClient
    \/ ListImagesCall
    \/ Recheck
    \/ Output

SpecRecheck == Init /\ [][NextRecheck]_vars

\* C18: when the remote tag check runs a second time over the same records
\* against the same listings, every target's remoteTagMissing has, during and
\* after the second run, the value the first run left.
C18_SecondCheckSameFlags ==
    firstRun # Nil => FlagsOf(repos) = Deref(firstRun)

\* a second check has returned after listing a target that is missing and a
\* target that is present, for the second time
C18_Witness ==
    /\ firstRun # Nil
    /\ pc = "output"
    /\ \E sl \in AllSlots(repos) :
          /\ sl \in recorded
          /\ FlagsOf(repos)[sl]
          /\ \E n \in CallsFor(sl[1], sl[2]) : calls[n].ok /\ calls[n].page.next = Nil
    /\ \E sl \in AllSlots(repos) :
          /\ ~FlagsOf(repos)[sl]
          /\ \E n \in CallsFor(sl[1], sl[2]) :
                calls[n].ok /\ PageHasTag(calls[n].page, repos[sl[1]])

-----------------------------------------------------------------------------
(* Inputs of the loading runs *)

\* a file on disk: readable and well-formed, absent, malformed, or unreadable
\* for another reason than absence
FileStates(data) ==
    {File("ok", data), NoFile, File("malformed", EmptyRepoConfig),
     File("permission", EmptyRepoConfig)}

LoadDefaults ==
    NewRepoConfig(Ptr("111111111111"), Ptr("eu-west-1"), Nil, Nil, Nil, Nil, Nil, Nil)

LoadChild(name) ==
    NewRepoConfig(Nil, Nil, Nil, Ptr(name), Ptr("alpine"), Ptr(<<"linux/amd64">>), Nil, Nil)

\* the image directory: image-1, then a hidden directory or a plain file,
\* then image-2; any state of the defaults file and of each config file
InitLoad ==
    /\ pc = "start"
    /\ \E d \in FileStates(LoadDefaults), f1 \in FileStates(LoadChild("repo-1")),
          f2 \in FileStates(LoadChild("repo-2")), listable \in BOOLEAN,
          other \in {DirEntry(".git", TRUE, File("ok", LoadChild("repo-3"))),
                     DirEntry("readme.md", FALSE, NoFile)} :
        fs = [defaults |-> d, listable |-> listable,
              dirs |-> <<DirEntry("image-1", TRUE, f1), other,
                         DirEntry("image-2", TRUE, f2)>>]
    /\ remote = NoRemote
    /\ InitRun

NextLoad == Start \/ ParseChildDir \/ ParseChildDone

SpecLoad == InitLoad /\ [][NextLoad]_vars

-----------------------------------------------------------------------------
(* Properties of loading *)

\* the directory entries parseChildConfig looks into
Eligible == {j \in 1..Len(fs.dirs) : fs.dirs[j].isDir /\ ~HasDotPrefix(fs.dirs[j].name)}

\* the eligible entries whose config file cannot be read for another reason
\* than its absence, or does not parse
Unloadable == {j \in Eligible : fs.dirs[j].file.status \notin {"ok", "notexist"}}

\* the paths of the eligible entries among the first n that have a config file
LoadablePaths(n) ==
    {sourceConfigFilePath(fs.dirs[j].name) :
        j \in {j \in Eligible : j <= n /\ fs.dirs[j].file.status = "ok"}}

\* Run has returned an error about a file
FileError == pc = "error" /\ err.msg \in {"opening YAML file", "parsing YAML file"}

\* C19: a directory whose config file does not exist is skipped and loading
\* goes on with the directories after it; a config file that cannot be read
\* for another reason or does not parse, and a defaults file that is missing
\* or does not parse, end the run with an error.
C19_MissingChildSkippedOtherFailuresAbort ==
    /\ pc = "parse" =>
          /\ fs.defaults.status = "ok"
          /\ \A j \in Unloadable : dirIdx <= j
          /\ DOMAIN repos = LoadablePaths(dirIdx - 1)
    /\ pc = "validate" =>
          /\ fs.defaults.status = "ok"
          /\ Unloadable = {}
          /\ DOMAIN repos = LoadablePaths(Len(fs.dirs))
    /\ FileError =>
          IF fs.defaults.status # "ok"
          THEN err.key = defaultConfigFile /\ repos = <<>>
          ELSE \E j \in Unloadable :
                  /\ err.key = sourceConfigFilePath(fs.dirs[j].name)
                  /\ \A i \in Unloadable : j <= i
                  /\ DOMAIN repos = LoadablePaths(j - 1)

\* loading has finished after skipping image-1, which has no config file,
\* and loading image-2 after it
C19_Witness ==
    /\ pc = "validate"
    /\ fs.dirs[1].file = NoFile
    /\ 1 \in Eligible
    /\ DOMAIN repos = {sourceConfigFilePath(fs.dirs[3].name)}

-----------------------------------------------------------------------------
(* Properties of the order of the stages *)

\* parseChildConfig has returned nil: every directory entry has been looked at
LoadedAndResolved == pc \notin {"start", "parse"} /\ dirIdx > Len(fs.dirs)

\* a client has been built or a list call made for some target
RemoteCallMade == ecrClient # Nil \/ calls # <<>>

\* C20: the stages of a run execute in the order load, resolve, validate,
\* decorate, remote check, aggregate: no client is built and no list call made
\* for any target before validate has accepted every record and the
\* calculated fields are added, the manifest is written only after the remote
\* check has finished with every record, and a validation failure ends the
\* run with no remote call and no manifest.
C20_StagesInOrder ==
    /\ (Validated \/ Rejected) => LoadedAndResolved
    /\ Validated => \A k \in DOMAIN repos : validateRepo(k, repos[k]) = {}
    /\ DecorateCalled => Validated
    /\ RemoteCallMade =>
          /\ Validated
          /\ Decorated
          /\ \A sl \in AllSlots(repos) :
                TargetAt(repos, sl).FullImageRef = calcFullImageRef(repos[sl[1]], TargetAt(repos, sl))
    /\ output # "" =>
          /\ pc = "done"
          /\ visited = DOMAIN repos
          /\ \A sl \in AllSlots(repos) : CallsFor(sl[1], sl[2]) # {}
    /\ Rejected =>
          /\ \E k \in DOMAIN repos : validateRepo(k, repos[k]) # {}
          /\ ~RemoteCallMade
          /\ recorded = {}
          /\ output = ""

\* validate has rejected a collection in which another record is valid and
\* has a target: no client, no list call and no manifest
C20_Witness ==
    /\ Rejected
    /\ \E k \in DOMAIN repos :
          validateRepo(k, repos[k]) = {} /\ SliceLen(repos[k].Targets) > 0
    /\ ~RemoteCallMade
    /\ output = ""

-----------------------------------------------------------------------------
(* Further properties of resolution *)

\* the directory entries parseChildConfig has dealt with
Processed == {j \in 1..Len(fs.dirs) : j < dirIdx}

\* C21: resolution is lenient: every child file that parses is resolved into
\* a record and stored, whatever the defaults and the child hold; a declared
\* target that lacks account id or region while the defaults have no usable
\* value keeps the gap, and the only stage that returns an error for it is
\* validate.
C21_ResolveNeverFails ==
    /\ \A j \in Processed \cap Eligible :
          fs.dirs[j].file.status = "ok" => j \in Resolved
    /\ \A j \in Resolved : \A i \in 1..SliceLen(ChildOf(j).Targets) :
          \A f \in {"AwsAccountId", "AwsRegion"} :
              (/\ Deref(ChildOf(j).Targets)[i][f] = Nil
               /\ strPtrEmpty(DefaultsOf[DefaultField(f)])) =>
                  /\ SliceLen(ResolvedOf(j).Targets) = SliceLen(ChildOf(j).Targets)
                  /\ Deref(ResolvedOf(j).Targets)[i][f] = Nil
    /\ pc = "parse" => err = NoErr
    /\ (pc = "error" /\ err.msg # "creating new config") => Rejected

\* a declared target without a region, resolved against defaults whose
\* region is the empty string, was stored with the gap and then rejected by
\* validate
C21_Witness ==
    \E j \in Resolved :
        /\ DefaultsOf.DefaultRegion = Ptr("")
        /\ SliceLen(ChildOf(j).Targets) = 1
        /\ Deref(ChildOf(j).Targets)[1].AwsRegion = Nil
        /\ Deref(ResolvedOf(j).Targets)[1].AwsRegion = Nil
        /\ ~strPtrEmpty(Deref(ResolvedOf(j).Targets)[1].AwsAccountId)
        /\ Rejected
        /\ err.msg = TargetFieldMsgs["AwsRegion"]

-----------------------------------------------------------------------------
(* Further properties of the remote tag check *)

\* the list calls made for the target at (key, idx) that returned a page
ReturnedCalls(key, idx) == {n \in CallsFor(key, idx) : calls[n].ok}

\* the number of list calls the listing asks for: the index of its first page
\* with the record's tag, or the number of its pages when no page has it
CallsNeeded(listing, key) ==
    IF TagListed(listing, key) THEN FirstPageWithTag(listing, key) ELSE Len(listing)

\* C22: after a page with the tag has been scanned no further list call is
\* made for the target, and the number of list calls made for a target is the
\* index of the first page with the tag, or the number of pages of the listing
\* when no page has it.
C22_CallsStopAtFirstMatch ==
    Validated => \A sl \in AllSlots(repos) :
        /\ \A n \in ReturnedCalls(sl[1], sl[2]) :
              PageHasTag(calls[n].page, repos[sl[1]]) =>
                  \A n2 \in CallsFor(sl[1], sl[2]) : n2 <= n
        /\ TargetRepository(sl[1], sl[2]) \in DOMAIN remote =>
              LET needed == CallsNeeded(remote[TargetRepository(sl[1], sl[2])], sl[1])
              IN  /\ Cardinality(CallsFor(sl[1], sl[2])) <= needed
                  /\ Checked(sl[1], sl[2]) =>
                        Cardinality(CallsFor(sl[1], sl[2])) = needed

\* call n is the first list call made for its target
FirstCallOfTarget(n) ==
    \A n2 \in 1..(n - 1) : calls[n2].key # calls[n].key \/ calls[n2].idx # calls[n].idx

\* C23: the list calls of a target are sequential: the first carries no
\* continuation token, every later one carries exactly the token that the
\* response to the call just before it, for the same target, returned; no
\* call carries a token returned for another target.
C23_TokensFollowResponses ==
    \A n \in 1..Len(calls) :
        IF FirstCallOfTarget(n)
        THEN calls[n].input.NextToken = Nil
        ELSE /\ calls[n - 1].key = calls[n].key
             /\ calls[n - 1].idx = calls[n].idx
             /\ calls[n - 1].ok
             /\ calls[n - 1].page.next # Nil
             /\ calls[n].input.NextToken = calls[n - 1].page.next

\* C24: every list call made for a target uses a client built for that
\* target: with the target's region, with role-assumed credentials for the
\* target's role ARN exactly when that ARN is non-empty, and otherwise with
\* the default credential chain and the call's registry id set to the
\* target's account id.
C24_ClientBuiltForTheTarget ==
    \A n \in 1..Len(calls) :
        LET t == TargetAt(repos, <<calls[n].key, calls[n].idx>>)
        IN  /\ calls[n].client = NewClient(t)
            /\ calls[n].client.region = Deref(t.AwsRegion)
            /\ IF t.AWSRoleARN # ""
               THEN calls[n].client.role = t.AWSRoleARN
               ELSE /\ calls[n].client.role = ""
                    /\ calls[n].input.RegistryId = t.AwsAccountId

-----------------------------------------------------------------------------
(* Further properties of validation *)

\* the checks a record violates, in the order validate makes them
Violations(repo) ==
    (IF strPtrEmpty(repo.RepoName) THEN <<"repo_name not set">> ELSE <<>>)
    \o (IF strPtrEmpty(repo.RepoTag) THEN <<"repo_tag not set">> ELSE <<>>)
    \o (IF SliceLen(repo.Targets) = 0
        THEN <<"targets not set either at the child level or via defaults">> ELSE <<>>)
    \o (IF SliceLen(repo.TargetPlatforms) = 0 THEN <<"target_platforms not set">>
        ELSE IF BadPlatforms(repo) THEN <<"target_platforms cannot contain empty values">>
        ELSE <<>>)
    \o (IF repo.BuildArgs # Nil /\ MapLen(repo.BuildArgs) = 0
        THEN <<"build_args must have at one key/pair when defined">>
        ELSE IF BadBuildArgs(repo) THEN <<"build_args must have no empty values">>
        ELSE <<>>)
    \o (IF Unresolvable(repo) = {} THEN <<>>
        ELSE LET i == CHOOSE i \in Unresolvable(repo) : \A j \in Unresolvable(repo) : i <= j
             IN  IF ~Resolvable(repo, Deref(repo.Targets)[i], "AwsAccountId")
                 THEN <<TargetFieldMsgs["AwsAccountId"]>>
                 ELSE <<TargetFieldMsgs["AwsRegion"]>>)

\* C25: for a record that violates several checks validate reports one
\* violation only, the earliest in the order repository name, repository tag,
\* target list, platform list, build args, account id and region of the
\* targets; the path in the error is that of a record that violates a check.
C25_FirstViolationOnly ==
    /\ Rejected =>
          /\ err.key \in DOMAIN repos
          /\ Violations(repos[err.key]) # <<>>
          /\ err.msg = Head(Violations(repos[err.key]))
    /\ Validated => \A k \in DOMAIN repos : Violations(repos[k]) = <<>>
    /\ ValidateReturned =>
          ((\E k \in DOMAIN repos : Violations(repos[k]) # <<>>) => Rejected)

\* validate has rejected a record that has no name, an empty-string platform
\* entry, a blank build arg and a target without region: the error is the
\* missing name
C25_Witness ==
    \E k \in DOMAIN repos :
        /\ Rejected
        /\ err.key = k
        /\ Len(Violations(repos[k])) >= 4
        /\ err.msg = "repo_name not set"
        /\ OthersPass(k)

-----------------------------------------------------------------------------
(* Frame properties *)

\* a record collection with the given fields of every target blanked
Without(rs, fields) ==
    [k \in DOMAIN rs |->
        [rs[k] EXCEPT !.Targets =
            IF @ = Nil THEN Nil
            ELSE Ptr([i \in 1..Len(Deref(@)) |->
                        [f \in DOMAIN Deref(@)[i] |->
                            IF f \in fields THEN "" ELSE Deref(@)[i][f]]])]]

CalculatedFields ==
    {"AWSRoleARN", "FullImageRef", "WorkingDirectory", "TargetPlatformStr", "BuildArgsStr"}

\* C26: the record collection is changed by one stage at a time and only in
\* that stage's fields: loading and resolving only add records, validate
\* changes nothing, the calculator changes only the calculated fields, the
\* remote tag check changes no field of any record or target but
\* remoteTagMissing, and the output stage changes nothing.
C26_StagesChangeOnlyTheirFields ==
    [][/\ pc = "parse" => \A k \in DOMAIN repos : k \in DOMAIN repos' /\ repos'[k] = repos[k]
       /\ pc = "validate" => repos' = repos
       /\ pc = "decorate" => Without(repos', CalculatedFields) = Without(repos, CalculatedFields)
       /\ pc \in {"check", "setup", "list"} =>
             Without(repos', {"RemoteTagMissing"}) = Without(repos, {"RemoteTagMissing"})
       /\ pc = "output" => repos' = repos]_vars

\* the remote tag check has flagged a target that has a role, and the
\* target still has its account id, region, role and calculated fields
C26_Witness ==
    \E sl \in recorded :
        LET t == TargetAt(repos, sl)
        IN  /\ t.RemoteTagMissing
            /\ ~strPtrEmpty(t.AwsRoleName)
            /\ t.AWSRoleARN = RoleARN(Deref(t.AwsAccountId), Deref(t.AwsRoleName))
            /\ t.FullImageRef = calcFullImageRef(repos[sl[1]], t)
            /\ t.WorkingDirectory = PathDir(sl[1])

-----------------------------------------------------------------------------
(* The records do not share their targets *)

\* the child file the record under key k was read from
ChildFileOf(k) ==
    fs.dirs[CHOOSE i \in 1..Len(fs.dirs) : sourceConfigFilePath(fs.dirs[i].name) = k].file

\* the target in slot sl carries remotetagmissing: true in its file
PresetInFile(sl) ==
    /\ sl[2] <= SliceLen(ChildFileOf(sl[1]).data.Targets)
    /\ Deref(ChildFileOf(sl[1]).data.Targets)[sl[2]].RemoteTagMissing

\* the record under key k got its target from the defaults
Synthesized(k) ==
    /\ k \in DOMAIN repos
    /\ ChildFileOf(k).data.Targets = Nil
    /\ SliceLen(repos[k].Targets) = 1

\* C27: resolving the child records leaves the defaults record as it was
\* loaded, and every target of every record, a target built from the defaults
\* included, is an object of its own: no two entries of the collection point
\* to one Target, and a target is flagged only if the check recorded that
\* very target missing (or its file set the flag), never because a target
\* of another record was flagged.
C27_RecordsOwnTheirTargets ==
    /\ pc \notin {"start", "error"} => defaultConfigData = fs.defaults.data
    /\ DOMAIN addr = AllSlots(repos)
    /\ \A s1, s2 \in DOMAIN addr : addr[s1] = addr[s2] => s1 = s2
    /\ \A sl \in AllSlots(repos) :
        TargetAt(repos, sl).RemoteTagMissing => sl \in recorded \/ PresetInFile(sl)

\* two records that both got their target from the defaults, the first
\* recorded missing and the second not checked yet
C27_Witness ==
    /\ Synthesized(sourceConfigFilePath("image-1"))
    /\ Synthesized(sourceConfigFilePath("image-2"))
    /\ recorded = {<<sourceConfigFilePath("image-1"), 1>>}
    /\ TargetAt(repos, <<sourceConfigFilePath("image-1"), 1>>).RemoteTagMissing
    /\ ~TargetAt(repos, <<sourceConfigFilePath("image-2"), 1>>).RemoteTagMissing

-----------------------------------------------------------------------------
(* A target that overrides the role with the empty string *)

\* the slots of c.repos whose target sets aws_role_name: "" in its file
EmptyRoleSlots ==
    {sl \in AllSlots(repos) :
        /\ sl[2] <= SliceLen(ChildFileOf(sl[1]).data.Targets)
        /\ Deref(ChildFileOf(sl[1]).data.Targets)[sl[2]].AwsRoleName = Ptr("")}

\* C28: a target whose role name is set to the empty string keeps the empty
\* string through resolution, also when the defaults name a role; its role
\* ARN stays empty, the client for it assumes no role, and the list calls
\* made for it carry its account id as the registry id.
C28_EmptyRoleNameKept ==
    \A sl \in EmptyRoleSlots :
        /\ TargetAt(repos, sl).AwsRoleName = Ptr("")
        /\ Decorated => TargetAt(repos, sl).AWSRoleARN = ""
        /\ \A n \in CallsFor(sl[1], sl[2]) :
            /\ calls[n].client.role = ""
            /\ calls[n].input.RegistryId = TargetAt(repos, sl).AwsAccountId

-----------------------------------------------------------------------------
(* The page loop comes to an end *)

\* the run as the process executes it: a step that can be taken is taken
SpecFair == Init /\ [][Next]_vars /\ WF_vars(Next)

-----------------------------------------------------------------------------
(* Resolving a resolved record *)

\* account id, region and role name of the targets of a record, in order
TargetKeysOf(repo) ==
    IF repo.Targets = Nil THEN <<>>
    ELSE [i \in 1..Len(Deref(repo.Targets)) |->
            <<Deref(repo.Targets)[i].AwsAccountId, Deref(repo.Targets)[i].AwsRegion,
              Deref(repo.Targets)[i].AwsRoleName>>]

\* C30: resolving a record that has been resolved against the same defaults
\* gives the same record: as many targets, each with the same account id,
\* region and role name; the target built from the defaults is not built a
\* second time.
C30_ResolveIdempotent ==
    \A k \in DOMAIN repos :
        LET again == mergeRepoConfig(defaultConfigData, repos[k])
        IN  /\ SliceLen(again.Targets) = SliceLen(repos[k].Targets)
            /\ TargetKeysOf(again) = TargetKeysOf(repos[k])
            /\ again = repos[k]

\* a record without a targets key whose target was built from the defaults,
\* the defaults naming a role
C30_Witness ==
    /\ Synthesized(sourceConfigFilePath("image-1"))
    /\ defaultConfigData.DefaultAwsRoleName = Ptr("default-role")
    /\ TargetAt(repos, <<sourceConfigFilePath("image-1"), 1>>).AwsRoleName
            = Ptr("default-role")

====
